---- MODULE Spec2Model ----
(***************************************************************************)
(* Discrete-time compartmental epidemic models of sir.py: SIRModel and     *)
(* SIRXModel, with the helpers check_norm, clip, step and lag.             *)
(*                                                                         *)
(* Fractions are fixed-point numbers: the integer v stands for the float   *)
(* v / SCALE, so SCALE stands for 1.0.  Addition and comparison are exact; *)
(* a product is rounded to the nearest unit, as a float product is rounded *)
(* to the nearest representable value.                                     *)
(*                                                                         *)
(* A behaviour constructs one model instance (or fails to) and then calls  *)
(* run and dump on it in any order; an exception is caught by the caller,  *)
(* who may go on calling.                                                  *)
(***************************************************************************)
EXTENDS Integers, Sequences, FiniteSets

\* Resolution of the fixed-point fractions: 1.0 is SCALE units.
SCALE == 100

\* Longest state history explored (n() never exceeds it).
MaxN == 4

\* Largest cycle count passed to run.
MaxCycles == 3

\* The floats 0.0 and 1.0 of check_norm and clip.
ZERO == 0 * SCALE
ONE == 1 * SCALE

\* Values the caller passes for the rate and fraction parameters, in and
\* out of [0, 1]: -0.1, 0.0, 0.25, 0.5, 1.0, 2.0.
Fractions == {-(SCALE \div 10), ZERO, SCALE \div 4, SCALE \div 2, ONE, 2 * ONE}

\* Values the caller passes to SIRXModel: for i0 and rho, for alpha, and
\* for beta and delta.  Only alpha is checked against [0, 1].
XFractions == {SCALE \div 4, SCALE \div 2, 2 * ONE}
XAlphas == {-(SCALE \div 10), SCALE \div 2, ONE, 2 * ONE}
XRates == {-(SCALE \div 10), ZERO, SCALE \div 4, SCALE \div 2}

\* Values the caller passes for tau (the constructor does not check it).
Taus == -2 .. 2

\* Values the caller passes to run.
CycleArgs == -1 .. MaxCycles

VARIABLES
    model,  \* the instance: its fields, or NoModel before/without construction
    call,   \* the last call made, with its arguments (fn = "none": no call yet)
    err,    \* the exception the last call raised, or NoErr
    ret     \* what the last call returned (an integer for run, a mapping for dump)

vars == <<model, call, err, ret>>

NoModel == [kind |-> "none"]
NoErr == [type |-> "none", tag |-> "", value |-> 0]
NoRet == [kind |-> "none"]

ValueError(tag, x) == [type |-> "ValueError", tag |-> tag, value |-> x]
IndexError == [type |-> "IndexError", tag |-> "list index out of range", value |-> 0]

\* Float product a * b, rounded to the nearest unit.
Mul(a, b) == (2 * a * b + SCALE) \div (2 * SCALE)

Min(a, b) == IF a < b THEN a ELSE b
Max(a, b) == IF a > b THEN a ELSE b
Last(seq) == seq[Len(seq)]

\* check_norm with the upper bound forgotten.
check_norm_lower_only(tag, x) ==
    IF ~(ZERO <= x) THEN ValueError(tag, x) ELSE NoErr

\* check_norm(tag, x): NoErr, or the ValueError it raises.
check_norm(tag, x) ==
    IF ~(ZERO <= x /\ x <= ONE) THEN ValueError(tag, x) ELSE NoErr

clip(value) == Min(ONE, Max(ZERO, value))

\* step(values, delta): the list after the append.
step(values, delta) == Append(values, clip(Last(values) + delta))

\* Python's values[k] on a list: `at` is the 1-based position read, or
\* `raised` when k is out of range (IndexError).
PyIndex(values, k) ==
    LET pos == IF k < 0 THEN Len(values) + k + 1 ELSE k + 1
    IN  IF pos >= 1 /\ pos <= Len(values)
        THEN [raised |-> FALSE, at |-> pos, value |-> values[pos]]
        ELSE [raised |-> TRUE, at |-> 0, value |-> ZERO]

\* lag one cycle short: values[-tau] once tau entries exist.
lag_short(values, tau) ==
    IF Len(values) >= tau
    THEN PyIndex(values, -tau)
    ELSE [raised |-> FALSE, at |-> 0, value |-> ZERO]

\* lag(values, tau): the value returned and the position it was read from
\* (at = 0 when the default 0.0 is returned), or raised on an IndexError.
lag(values, tau) ==
    IF Len(values) > tau
    THEN PyIndex(values, -(tau + 1))
    ELSE [raised |-> FALSE, at |-> 0, value |-> ZERO]

----------------------------------------------------------------------------
\* SIRModel

\* SIRModel.__init__ checking alpha before i0.
SIRCheck_alpha_first(i0, alpha, beta) ==
    IF check_norm("alpha", alpha) # NoErr THEN check_norm("alpha", alpha)
    ELSE IF check_norm("i0", i0) # NoErr THEN check_norm("i0", i0)
    ELSE check_norm("beta", beta)

\* The first check_norm of SIRModel.__init__ that raises, or NoErr.
SIRCheck(i0, alpha, beta) ==
    IF check_norm("i0", i0) # NoErr THEN check_norm("i0", i0)
    ELSE IF check_norm("alpha", alpha) # NoErr THEN check_norm("alpha", alpha)
    ELSE check_norm("beta", beta)

\* The fields SIRModel.__init__ sets.
SIRInit(i0, alpha, beta) ==
    [kind |-> "SIR", alpha |-> alpha, beta |-> beta,
     i |-> <<i0>>, s |-> <<ONE - i0>>, r |-> <<ZERO>>]

\* The loop body of SIRModel.run with the flows read after s was extended.
SIRCycle_sequential(m) ==
    LET s1 == step(m.s, -Mul(Mul(m.alpha, Last(m.i)), Last(m.s)))
        infections == Mul(Mul(m.alpha, Last(m.i)), Last(s1))
        removals == Mul(m.beta, Last(m.i))
    IN  [m EXCEPT !.s = s1,
                  !.i = step(m.i, infections - removals),
                  !.r = step(m.r, removals)]

\* One iteration of the loop of SIRModel.run.
SIRCycle(m) ==
    LET infections == Mul(Mul(m.alpha, Last(m.i)), Last(m.s))
        removals == Mul(m.beta, Last(m.i))
    IN  [m EXCEPT !.s = step(m.s, -infections),
                  !.i = step(m.i, infections - removals),
                  !.r = step(m.r, removals)]

RECURSIVE SIRLoop(_, _)
SIRLoop(m, cycles) ==
    IF cycles = 0 THEN m ELSE SIRLoop(SIRCycle(m), cycles - 1)

\* n() counting the cycles executed instead of the recorded points.
n_cycles(m) == Len(m.i) - 1

\* n() of either model.
n(m) == Len(m.i)

SIRDump(m) == [kind |-> "dump", keys |-> <<"s", "i", "r">>,
               s |-> m.s, i |-> m.i, r |-> m.r]

NewSIR(i0, alpha, beta) ==
    /\ call.fn = "none"
    /\ call' = [fn |-> "SIRModel", i0 |-> i0, alpha |-> alpha, beta |-> beta]
    /\ ret' = NoRet
    /\ err' = SIRCheck(i0, alpha, beta)
    /\ model' = IF err' = NoErr THEN SIRInit(i0, alpha, beta) ELSE NoModel

RunSIR(cycles) ==
    /\ model.kind = "SIR"
    /\ n(model) + Max(cycles, 0) <= MaxN
    /\ call' = [fn |-> "run", cycles |-> cycles]
    /\ IF ~(cycles > 0)
       THEN /\ err' = ValueError("cycle count", cycles)
            /\ ret' = NoRet
            /\ model' = model
       ELSE /\ err' = NoErr
            /\ model' = SIRLoop(model, cycles)
            /\ ret' = [kind |-> "int", value |-> n(model')]

DumpSIR ==
    /\ model.kind = "SIR"
    /\ call' = [fn |-> "dump"]
    /\ err' = NoErr
    /\ ret' = SIRDump(model)
    /\ model' = model

----------------------------------------------------------------------------
\* SIRXModel

\* SIRXModel.__init__ guarding the sum its message names, rho + delta.
SIRXCheck_rho(i0, alpha, beta, rho, delta, tau) ==
    IF check_norm("alpha", alpha) # NoErr THEN check_norm("alpha", alpha)
    ELSE IF rho + delta >= ONE
         THEN ValueError("rho + delta too large", rho + delta)
         ELSE NoErr

\* The check of SIRXModel.__init__ that raises, or NoErr.
SIRXCheck(i0, alpha, beta, rho, delta, tau) ==
    IF check_norm("alpha", alpha) # NoErr THEN check_norm("alpha", alpha)
    ELSE IF beta + delta >= ONE
         THEN ValueError("rho + delta too large", rho + delta)
         ELSE NoErr

\* The fields SIRXModel.__init__ sets.  lagat is not a field of the
\* program: it records, for every entry of lapses, the position of the
\* recoveries history that lag read for it (0: none, the default 0.0).
SIRXInit(i0, alpha, beta, rho, delta, tau) ==
    [kind |-> "SIRX", alpha |-> alpha, beta |-> beta, delta |-> delta,
     rho |-> rho, tau |-> tau,
     i |-> <<i0>>, s |-> <<ONE - i0>>, r |-> <<ZERO>>, x |-> <<ZERO>>,
     infections |-> <<>>, recoveries |-> <<>>, deaths |-> <<>>,
     lapses |-> <<>>, lagat |-> <<>>]

\* The loop body of SIRXModel.run with the lag lookup made before this
\* cycle's recovery is appended.
SIRXCycle_lag_first(m) ==
    LET i_last == Last(m.i)
        s_last == Last(m.s)
        lg == lag(m.recoveries, m.tau)
        infections == Append(m.infections, Mul(Mul(m.alpha, i_last), s_last))
        recoveries == Append(m.recoveries, Mul(m.beta, i_last))
        deaths == Append(m.deaths, Mul(m.delta, i_last))
        lapses == Append(m.lapses, Mul(m.rho, lg.value))
    IN  IF lg.raised
        THEN [m |-> m, raised |-> TRUE]
        ELSE [m |-> [m EXCEPT
                  !.infections = infections,
                  !.recoveries = recoveries,
                  !.deaths = deaths,
                  !.lapses = lapses,
                  !.lagat = Append(m.lagat, lg.at),
                  !.s = step(m.s, Last(lapses) - Last(infections)),
                  !.i = step(m.i, Last(infections) - Last(recoveries) - Last(deaths)),
                  !.r = step(m.r, Last(recoveries) - Last(lapses)),
                  !.x = step(m.x, Last(deaths))],
              raised |-> FALSE]

\* One iteration of the loop of SIRXModel.run: the fields after it, and
\* whether it raised (then the fields are as the exception left them).
SIRXCycle(m) ==
    LET i_last == Last(m.i)
        s_last == Last(m.s)
        infections == Append(m.infections, Mul(Mul(m.alpha, i_last), s_last))
        recoveries == Append(m.recoveries, Mul(m.beta, i_last))
        deaths == Append(m.deaths, Mul(m.delta, i_last))
        lg == lag(recoveries, m.tau)
        lapses == Append(m.lapses, Mul(m.rho, lg.value))
    IN  IF lg.raised
        THEN [m |-> [m EXCEPT !.infections = infections,
                              !.recoveries = recoveries,
                              !.deaths = deaths],
              raised |-> TRUE]
        ELSE [m |-> [m EXCEPT
                  !.infections = infections,
                  !.recoveries = recoveries,
                  !.deaths = deaths,
                  !.lapses = lapses,
                  !.lagat = Append(m.lagat, lg.at),
                  !.s = step(m.s, Last(lapses) - Last(infections)),
                  !.i = step(m.i, Last(infections) - Last(recoveries) - Last(deaths)),
                  !.r = step(m.r, Last(recoveries) - Last(lapses)),
                  !.x = step(m.x, Last(deaths))],
              raised |-> FALSE]

RECURSIVE SIRXLoop(_, _)
SIRXLoop(m, cycles) ==
    IF cycles = 0
    THEN [m |-> m, raised |-> FALSE]
    ELSE LET c == SIRXCycle(m)
         IN  IF c.raised THEN c ELSE SIRXLoop(c.m, cycles - 1)

SIRXDump(m) == [kind |-> "dump", keys |-> <<"s", "i", "r", "x">>,
                s |-> m.s, i |-> m.i, r |-> m.r, x |-> m.x]

NewSIRX(i0, alpha, beta, rho, delta, tau) ==
    /\ call.fn = "none"
    /\ call' = [fn |-> "SIRXModel", i0 |-> i0, alpha |-> alpha, beta |-> beta,
                rho |-> rho, delta |-> delta, tau |-> tau]
    /\ ret' = NoRet
    /\ err' = SIRXCheck(i0, alpha, beta, rho, delta, tau)
    /\ model' = IF err' = NoErr
                THEN SIRXInit(i0, alpha, beta, rho, delta, tau)
                ELSE NoModel

RunSIRX(cycles) ==
    /\ model.kind = "SIRX"
    /\ n(model) + Max(cycles, 0) <= MaxN
    /\ Len(model.recoveries) + Max(cycles, 0) <= MaxN + 1
    /\ call' = [fn |-> "run", cycles |-> cycles]
    /\ IF ~(cycles > 0)
       THEN /\ err' = ValueError("cycle count", cycles)
            /\ ret' = NoRet
            /\ model' = model
       ELSE LET res == SIRXLoop(model, cycles)
            IN  /\ model' = res.m
                /\ err' = IF res.raised THEN IndexError ELSE NoErr
                /\ ret' = IF res.raised THEN NoRet
                          ELSE [kind |-> "int", value |-> n(model')]

DumpSIRX ==
    /\ model.kind = "SIRX"
    /\ call' = [fn |-> "dump"]
    /\ err' = NoErr
    /\ ret' = SIRXDump(model)
    /\ model' = model

----------------------------------------------------------------------------

Init ==
    /\ model = NoModel
    /\ call = [fn |-> "none"]
    /\ err = NoErr
    /\ ret = NoRet

Next ==
    \/ \E i0 \in Fractions, alpha \in Fractions, beta \in Fractions :
          NewSIR(i0, alpha, beta)
    \/ \E cycles \in CycleArgs : RunSIR(cycles)
    \/ DumpSIR
    \/ \E i0 \in XFractions, alpha \in XAlphas, beta \in XRates,
          rho \in XFractions, delta \in XRates, tau \in Taus :
          NewSIRX(i0, alpha, beta, rho, delta, tau)
    \/ \E cycles \in CycleArgs : RunSIRX(cycles)
    \/ DumpSIRX

Spec == Init /\ [][Next]_vars


----------------------------------------------------------------------------
\* Properties

IsSIR == model.kind = "SIR"
IsSIRX == model.kind = "SIRX"
Ran == call.fn = "run" /\ err = NoErr
InUnit(v) == ZERO <= v /\ v <= ONE

\* The sequences dump() returns for the instance.
DumpSeqs(m) ==
    IF m.kind = "SIR"
    THEN {SIRDump(m).s, SIRDump(m).i, SIRDump(m).r}
    ELSE {SIRXDump(m).s, SIRXDump(m).i, SIRXDump(m).r, SIRXDump(m).x}

\* C1: n() is 1 right after a successful construction; a successful
\* run(c) increases n() by exactly c and returns the new n(); and in every
\* state each sequence of dump() has length n().
C1_Step ==
    /\ (call'.fn \in {"SIRModel", "SIRXModel"} /\ err' = NoErr) => n(model') = 1
    /\ (call'.fn = "run" /\ err' = NoErr) =>
          /\ n(model') = n(model) + call'.cycles
          /\ ret' = [kind |-> "int", value |-> n(model')]
    /\ model'.kind # "none" => \A q \in DumpSeqs(model') : Len(q) = n(model')
    /\ (call'.fn = "dump") => \A k \in 1 .. Len(ret'.keys) :
          Len(ret'[ret'.keys[k]]) = n(model')
C1_CycleCount == [][C1_Step]_vars

\* A SIRX instance that a second successful run, of 2 cycles, took to 4 points.
C1_Witness ==
    IsSIRX /\ Ran /\ call.cycles = 2 /\ n(model) = 4 /\ ret.value = 4

\* C2: a run call that raises leaves every field of the instance as it was
\* before the call.
C2_RunAtomic ==
    [][(call'.fn = "run" /\ err' # NoErr) => model' = model]_vars

\* C3: in a SIRModel the compartments sum to one at every recorded index.
C3_SIRSum ==
    IsSIR => \A t \in 1 .. n(model) :
        model.s[t] + model.i[t] + model.r[t] = ONE

\* A SIRModel after three cycles in which every compartment moved.
C3_Witness ==
    /\ IsSIR /\ n(model) = 4
    /\ model.s[4] < model.s[1] /\ model.i[4] # model.i[1] /\ model.r[4] > ZERO

\* C4: every recorded value of every compartment of either model, index 0
\* included, lies in [0, 1].
C4_InRange ==
    model.kind # "none" =>
        \A q \in DumpSeqs(model) : \A t \in 1 .. Len(q) : InUnit(q[t])

\* C5: with tau = T >= 0 the lapse flow of each of the first T cycles is
\* zero, so that s and r move in those cycles by infections and recoveries
\* alone.
C5_LagZero ==
    (IsSIRX /\ model.tau >= 0) =>
        \A k \in 1 .. Len(model.lapses) :
            k <= model.tau =>
                /\ model.lapses[k] = ZERO
                /\ model.s[k + 1] = clip(model.s[k] - model.infections[k])
                /\ model.r[k + 1] = clip(model.r[k] + model.recoveries[k])

\* tau = 2: recoveries flowed in cycles 1 and 2 with no lapse, and cycle 3
\* is the first with a lapse flow.
C5_Witness ==
    /\ IsSIRX /\ model.tau = 2 /\ Len(model.lapses) >= 3
    /\ model.recoveries[1] > ZERO /\ model.recoveries[2] > ZERO
    /\ model.lapses[1] = ZERO /\ model.lapses[2] = ZERO
    /\ model.lapses[3] > ZERO

\* C6: in a SIRXModel the four compartments sum to one at every recorded
\* index.
C6_SIRXSum ==
    IsSIRX => \A t \in 1 .. n(model) :
        model.s[t] + model.i[t] + model.r[t] + model.x[t] = ONE

Offends(v) == v < ZERO \/ v > ONE

\* C7: SIRModel construction raises exactly when i0, alpha or beta is
\* outside [0, 1], naming the first offender (in the order i0, alpha, beta)
\* and its value; otherwise the instance starts as s = [1 - i0], i = [i0],
\* r = [0].
C7_SIRConstruct ==
    call.fn = "SIRModel" =>
        LET first == IF Offends(call.i0) THEN "i0"
                     ELSE IF Offends(call.alpha) THEN "alpha" ELSE "beta"
        IN  IF Offends(call.i0) \/ Offends(call.alpha) \/ Offends(call.beta)
            THEN /\ err = [type |-> "ValueError", tag |-> first,
                           value |-> call[first]]
                 /\ model = NoModel
            ELSE /\ err = NoErr
                 /\ IsSIR
                 /\ model.s = <<ONE - call.i0>>
                 /\ model.i = <<call.i0>>
                 /\ model.r = <<ZERO>>

\* i0 and alpha both offend, and the error names i0.
C7_Witness ==
    /\ call.fn = "SIRModel" /\ Offends(call.i0) /\ Offends(call.alpha)
    /\ err.type = "ValueError" /\ err.tag = "i0" /\ err.value = call.i0

\* C8: SIRXModel construction raises exactly when alpha is outside [0, 1]
\* or beta + delta >= 1, and then no instance exists; every instance has
\* beta + delta < 1.
C8_SIRXConstruct ==
    /\ call.fn = "SIRXModel" =>
          IF Offends(call.alpha) \/ call.beta + call.delta >= ONE
          THEN err.type = "ValueError" /\ model = NoModel
          ELSE err = NoErr /\ IsSIRX
    /\ IsSIRX => model.beta + model.delta < ONE

\* Accepted although i0, rho, beta and tau are all out of range.
C8_Witness ==
    /\ call.fn = "SIRXModel" /\ err = NoErr /\ IsSIRX
    /\ Offends(call.i0) /\ Offends(call.rho) /\ Offends(call.beta)
    /\ call.tau < 0

\* C9: every SIRModel cycle computes infections and removals from the
\* start-of-cycle s and i, and appends the three clipped sums.
C9_SIRRecurrence ==
    IsSIR => \A t \in 1 .. n(model) - 1 :
        LET infections == Mul(Mul(model.alpha, model.i[t]), model.s[t])
            removals == Mul(model.beta, model.i[t])
        IN  /\ model.s[t + 1] = clip(model.s[t] - infections)
            /\ model.i[t + 1] = clip(model.i[t] + infections - removals)
            /\ model.r[t + 1] = clip(model.r[t] + removals)

\* Two cycles ran with infections and removals both flowing.
C9_Witness ==
    /\ IsSIR /\ n(model) >= 3
    /\ model.s[3] < model.s[2] /\ model.s[2] < model.s[1]
    /\ model.r[3] > model.r[2] /\ model.r[2] > ZERO

\* C10 as stated: the entry of the recoveries history that the lag lookup
\* of cycle k returns is never cycle k's own.
C10_PreviousOnly ==
    (IsSIRX /\ model.tau >= 0) =>
        \A k \in 1 .. Len(model.lagat) : model.lagat[k] # k

\* C10 amended: the lookup of cycle k sees the history with cycle k's own
\* recovery appended, and returns the recovery of cycle k - tau (cycle k's
\* own when tau = 0), or 0.0 while k <= tau.
C10_LagIncludesCurrent ==
    (IsSIRX /\ model.tau >= 0) =>
        \A k \in 1 .. Len(model.lapses) :
            IF k > model.tau
            THEN /\ model.lagat[k] = k - model.tau
                 /\ model.lapses[k] =
                        Mul(model.rho, model.recoveries[k - model.tau])
            ELSE /\ model.lagat[k] = 0
                 /\ model.lapses[k] = ZERO

\* tau = 0: the lapse flow of cycle 2 is rho times the recovery of cycle 2,
\* which differs from that of cycle 1.
C10_Witness ==
    /\ IsSIRX /\ model.tau = 0 /\ Len(model.lapses) >= 2
    /\ model.lagat[2] = 2
    /\ model.recoveries[2] # model.recoveries[1]
    /\ model.lapses[2] = Mul(model.rho, model.recoveries[2])
    /\ model.lapses[2] # Mul(model.rho, model.recoveries[1])

====
